---- MODULE Spec2Model ----
(***************************************************************************)
(* Model of the two page generators of nxdk_pgraph_tests_golden_results:   *)
(*   .github/scripts/generate_site.py  (HTML site)                         *)
(*   .github/scripts/generate_wiki.py  (GitHub wiki markdown)              *)
(*                                                                         *)
(* Python str values are TLA+ strings; TLC evaluates Len, \o, SubSeq, Head *)
(* and Tail on them.  A Python dict is a sequence of [k, v] records with   *)
(* distinct keys, in insertion order.  Python None is the record None.     *)
(***************************************************************************)
EXTENDS Integers, Sequences, FiniteSets, TLC

VARIABLES
    tool,        \* "site" | "wiki" | "lookup" | "url": which program runs
    pc,          \* position of the run inside main() / process_results()
    error,       \* the exception that ended the run, "" when none
    args,        \* command line arguments of the run
    stale,       \* paths of the files the output directory held at the start
    globbed,     \* what glob.glob returns for the results directory (a list)
    response,    \* outcome of requests.get on the registry URL
    descriptors, \* dict returned by TestSuiteDescriptorLoader.process()
    results,     \* dict of the scanner (SuiteResults / artifact lists)
    fs,          \* file system: set of [path, content] files
    written,     \* paths written by this run, in order
    todo,        \* suites whose page is still to be written (list)
    exit_code,   \* value returned to sys.exit, -1 while running
    probe        \* input and output of the pure function under check

vars == <<tool, pc, error, args, stale, globbed, response, descriptors, results,
          fs, written, todo, exit_code, probe>>

-----------------------------------------------------------------------------
(* Bounds of the model *)

MaxFiles == 3

MaxStale == 2

MaxNameLen == 2

MaxEntries == 2

MaxLine == 11

-----------------------------------------------------------------------------
(* Python values *)

None == [none |-> TRUE]

RESULTS_SUBDIR == "results"

RESULTS_NO_ALPHA_SUBDIR == "results-noalpha"

RAW_BASE_URL == "https://raw.githubusercontent.com/abaire/nxdk_pgraph_tests_golden_results/main"

Char(s, i) == SubSeq(s, i, i)

Range(f) == {f[i] : i \in DOMAIN f}

\* s[i:] and s[:i] with a 0-based Python index i
From(s, i) == SubSeq(s, i + 1, Len(s))

UpTo(s, i) == SubSeq(s, 1, i)

\* s.find(c) and s.rfind(c): 0-based index of a one-character c, -1 if absent
Find(s, c) ==
    IF \E i \in 1..Len(s) : Char(s, i) = c
    THEN (CHOOSE i \in 1..Len(s) :
            Char(s, i) = c /\ \A j \in 1..(i - 1) : Char(s, j) # c) - 1
    ELSE -1

RFind(s, c) ==
    IF \E i \in 1..Len(s) : Char(s, i) = c
    THEN (CHOOSE i \in 1..Len(s) :
            Char(s, i) = c /\ \A j \in (i + 1)..Len(s) : Char(s, j) # c) - 1
    ELSE -1

\* s.rstrip(c)
RECURSIVE RStrip(_, _)
RStrip(s, c) ==
    IF Len(s) > 0 /\ Char(s, Len(s)) = c THEN RStrip(UpTo(s, Len(s) - 1), c) ELSE s

\* s.split(c): always at least one element
RECURSIVE Split(_, _)
Split(s, c) ==
    LET i == Find(s, c)
    IN  IF i < 0 THEN <<s>> ELSE <<UpTo(s, i)>> \o Split(From(s, i + 1), c)

\* s.split(c, 1): at most one split
Split1(s, c) ==
    LET i == Find(s, c)
    IN  IF i < 0 THEN <<s>> ELSE <<UpTo(s, i), From(s, i + 1)>>

\* c.join(parts)
RECURSIVE JoinStr(_, _)
JoinStr(parts, c) ==
    IF Len(parts) = 0 THEN ""
    ELSE IF Len(parts) = 1 THEN parts[1]
    ELSE parts[1] \o c \o JoinStr(Tail(parts), c)

\* s.replace(a, b) for a one-character a
RECURSIVE Replace(_, _, _)
Replace(s, a, b) ==
    IF Len(s) = 0 THEN ""
    ELSE (IF Head(s) = a THEN b ELSE Head(s)) \o Replace(Tail(s), a, b)

Lowers == "abcdefghijklmnopqrstuvwxyz"

Uppers == "ABCDEFGHIJKLMNOPQRSTUVWXYZ"

Digits == "0123456789"

IsLower(c) == Find(Lowers, c) >= 0

IsUpper(c) == Find(Uppers, c) >= 0

IsCased(c) == IsLower(c) \/ IsUpper(c)

ToUpper(c) == IF IsLower(c) THEN Char(Uppers, Find(Lowers, c) + 1) ELSE c

ToLower(c) == IF IsUpper(c) THEN Char(Lowers, Find(Uppers, c) + 1) ELSE c

\* str.title(): a cased character is upper-cased when the character before it
\* is uncased (or there is none) and lower-cased otherwise
RECURSIVE TitleFrom(_, _)
TitleFrom(s, previous_is_cased) ==
    IF Len(s) = 0 THEN ""
    ELSE LET c == Head(s)
         IN  (IF ~IsCased(c) THEN c
              ELSE IF previous_is_cased THEN ToLower(c) ELSE ToUpper(c))
             \o TitleFrom(Tail(s), IsCased(c))

Title(s) == TitleFrom(s, FALSE)

\* str(n) for an integer n
RECURSIVE StrNat(_)
StrNat(n) ==
    IF n < 10 THEN Char(Digits, n + 1)
    ELSE StrNat(n \div 10) \o Char(Digits, (n % 10) + 1)

StrInt(n) == IF n < 0 THEN "-" \o StrNat(-n) ELSE StrNat(n)

\* Code point order of the characters the model uses (ASCII)
AsciiOrder == " #%-./0123456789:ABCDEFGHIJKLMNOPQRSTUVWXYZ_abcdefghijklmnopqrstuvwxyz~"

Ord(c) == Find(AsciiOrder, c)

\* a < b on Python str
RECURSIVE StrLess(_, _)
StrLess(a, b) ==
    IF Len(b) = 0 THEN FALSE
    ELSE IF Len(a) = 0 THEN TRUE
    ELSE IF Head(a) = Head(b) THEN StrLess(Tail(a), Tail(b))
    ELSE Ord(Head(a)) < Ord(Head(b))

\* sorted(xs) on a collection of str (insertion into a sorted list; stable)
RECURSIVE InsertSorted(_, _)
InsertSorted(x, xs) ==
    IF Len(xs) = 0 THEN <<x>>
    ELSE IF StrLess(x, Head(xs)) THEN <<x>> \o xs
    ELSE <<Head(xs)>> \o InsertSorted(x, Tail(xs))

RECURSIVE Sorted(_)
Sorted(xs) ==
    IF Len(xs) = 0 THEN <<>>
    ELSE InsertSorted(xs[Len(xs)], Sorted(SubSeq(xs, 1, Len(xs) - 1)))

-----------------------------------------------------------------------------
(* Python dict: insertion ordered, keys distinct *)

DictKeys(d) == [i \in 1..Len(d) |-> d[i].k]

DictHas(d, key) == \E i \in 1..Len(d) : d[i].k = key

\* d.get(key), None when absent
DictGet(d, key) ==
    IF DictHas(d, key) THEN d[CHOOSE i \in 1..Len(d) : d[i].k = key].v ELSE None

\* d[key] = value: an existing key keeps its position
DictSet(d, key, value) ==
    IF DictHas(d, key)
    THEN [i \in 1..Len(d) |-> IF d[i].k = key THEN [k |-> key, v |-> value] ELSE d[i]]
    ELSE Append(d, [k |-> key, v |-> value])

-----------------------------------------------------------------------------
(* os.path (posixpath) *)

\* the working directory of the process, os.getcwd()
Cwd == "/w"

isabs(p) == Len(p) > 0 /\ Head(p) = "/"

\* os.path.dirname(p)
dirname(p) ==
    LET i == RFind(p, "/") + 1
        head == UpTo(p, i)
    IN  IF head # "" /\ RStrip(head, "/") # "" THEN RStrip(head, "/") ELSE head

\* os.path.basename(p)
basename(p) == From(p, RFind(p, "/") + 1)

\* os.path.splitext(p): the extension starts at the last dot of the last
\* component, unless only dots precede it there
splitext(p) ==
    LET sepIndex == RFind(p, "/")
        dotIndex == RFind(p, ".")
    IN  IF /\ dotIndex > sepIndex
           /\ \E f \in (sepIndex + 1)..(dotIndex - 1) : Char(p, f + 1) # "."
        THEN <<UpTo(p, dotIndex), From(p, dotIndex)>>
        ELSE <<p, "">>

\* os.path.join(a, b)
join(a, b) ==
    IF isabs(b) THEN b
    ELSE IF a = "" \/ Char(a, Len(a)) = "/" THEN a \o b
    ELSE a \o "/" \o b

\* the component stack of os.path.normpath
RECURSIVE NormComps(_, _, _)
NormComps(comps, new_comps, initial_slashes) ==
    IF Len(comps) = 0 THEN new_comps
    ELSE LET comp == Head(comps)
             n == Len(new_comps)
         IN  IF comp = "" \/ comp = "." THEN NormComps(Tail(comps), new_comps, initial_slashes)
             ELSE IF \/ comp # ".."
                     \/ (initial_slashes = 0 /\ n = 0)
                     \/ (n > 0 /\ new_comps[n] = "..")
                  THEN NormComps(Tail(comps), Append(new_comps, comp), initial_slashes)
             ELSE IF n > 0
                  THEN NormComps(Tail(comps), SubSeq(new_comps, 1, n - 1), initial_slashes)
             ELSE NormComps(Tail(comps), new_comps, initial_slashes)

\* os.path.normpath(p)
normpath(p) ==
    IF p = "" THEN "."
    ELSE LET initial_slashes ==
                 IF ~isabs(p) THEN 0
                 ELSE IF Len(p) >= 2 /\ Char(p, 2) = "/" /\ ~(Len(p) >= 3 /\ Char(p, 3) = "/")
                      THEN 2 ELSE 1
             body == JoinStr(NormComps(Split(p, "/"), <<>>, initial_slashes), "/")
             out == (IF initial_slashes = 2 THEN "//"
                     ELSE IF initial_slashes = 1 THEN "/" ELSE "") \o body
         IN  IF out = "" THEN "." ELSE out

\* os.path.abspath(p)
abspath(p) == normpath(IF isabs(p) THEN p ELSE join(Cwd, p))

RECURSIVE NonEmpty(_)
NonEmpty(xs) ==
    IF Len(xs) = 0 THEN <<>>
    ELSE (IF Head(xs) = "" THEN <<>> ELSE <<Head(xs)>>) \o NonEmpty(Tail(xs))

RECURSIVE CommonPrefixLen(_, _)
CommonPrefixLen(a, b) ==
    IF Len(a) = 0 \/ Len(b) = 0 \/ Head(a) # Head(b) THEN 0
    ELSE 1 + CommonPrefixLen(Tail(a), Tail(b))

\* The result of a call: the exception it raised ("" when none) and its value
Returns(value) == [exc |-> "", val |-> value]

Raises(exception) == [exc |-> exception, val |-> None]

\* os.path.relpath(path, start): ValueError("no path specified") for an empty
\* path, else the path from start to path
relpath(path, start) ==
    IF path = "" THEN Raises("ValueError")
    ELSE LET start_list == NonEmpty(Split(abspath(start), "/"))
             path_list == NonEmpty(Split(abspath(path), "/"))
             i == CommonPrefixLen(start_list, path_list)
             rel_list == [k \in 1..(Len(start_list) - i) |-> ".."]
                         \o SubSeq(path_list, i + 1, Len(path_list))
         IN  Returns(IF Len(rel_list) = 0 THEN "." ELSE JoinStr(rel_list, "/"))

\* fnmatch-based glob of one directory level: the pattern "*" \o suffix
\* matches a name that ends in suffix, but never a name starting with "."
GlobStar(name, suffix) ==
    /\ Len(name) >= Len(suffix)
    /\ SubSeq(name, Len(name) - Len(suffix) + 1, Len(name)) = suffix
    /\ Head(name) # "."

\* urllib.parse.quote(s): letters, digits and "_.-~/" are kept, any other
\* character is replaced by its percent escape
QuoteSafe == Lowers \o Uppers \o Digits \o "_.-~/"

QuoteChar(c) ==
    IF Find(QuoteSafe, c) >= 0 THEN c
    ELSE IF c = " " THEN "%20"
    ELSE IF c = "#" THEN "%23"
    ELSE IF c = "%" THEN "%25"
    ELSE "%3A"

RECURSIVE quote(_)
quote(s) == IF Len(s) = 0 THEN "" ELSE QuoteChar(Head(s)) \o quote(Tail(s))

-----------------------------------------------------------------------------
(* JSON documents as json.loads returns them, tagged by their Python type *)

JNull == [t |-> "null"]

JStr(s) == [t |-> "str", s |-> s]

JInt(n) == [t |-> "int", n |-> n]

JList(items) == [t |-> "list", items |-> items]

JObj(d) == [t |-> "dict", d |-> d]

\* what json.loads raises on: the body is no JSON document
InvalidBody == [t |-> "invalid"]

KV(key, value) == [k |-> key, v |-> value]

\* bool(v) of a parsed value
Truthy(v) ==
    CASE v.t = "null" -> FALSE
      [] v.t = "str" -> v.s # ""
      [] v.t = "int" -> v.n # 0
      [] v.t = "list" -> Len(v.items) > 0
      [] v.t = "dict" -> Len(v.d) > 0

\* the untagged Python value of a parsed document
RECURSIVE Py(_)
Py(v) ==
    CASE v.t = "null" -> None
      [] v.t = "str" -> v.s
      [] v.t = "int" -> v.n
      [] v.t = "list" -> [i \in 1..Len(v.items) |-> Py(v.items[i])]
      [] v.t = "dict" -> [i \in 1..Len(v.d) |-> KV(v.d[i].k, Py(v.d[i].v))]

\* obj.get(key, default) on a parsed JSON object
JGet(obj, key, default) == IF DictHas(obj.d, key) THEN DictGet(obj.d, key) ELSE default

-----------------------------------------------------------------------------
(* generate_site.py *)

\* TestSuiteDescriptor.from_obj
from_obj(obj) ==
    IF obj.t # "dict" THEN Raises("AttributeError")
    ELSE LET suite == JGet(obj, "suite", JStr(""))
         IN  IF suite.t # "str" THEN Raises("AttributeError")
             ELSE Returns([suite_name |-> Replace(suite.s, " ", "_"),
                           class_name |-> Py(JGet(obj, "class", JStr(""))),
                           description |-> Py(JGet(obj, "description", JList(<<>>))),
                           source_file |-> Py(JGet(obj, "source_file", JStr(""))),
                           source_file_line |-> Py(JGet(obj, "source_file_line", JInt(-1))),
                           test_descriptions |-> Py(JGet(obj, "test_descriptions", JObj(<<>>)))])

\* a loader that lets the HTTPError of raise_for_status escape
load_registry_raising(resp) ==
    IF resp.kind \in {"ConnectionError", "Timeout"} THEN Returns(JNull)
    ELSE IF resp.status >= 400 THEN Raises("HTTPError")
    ELSE IF resp.body = InvalidBody THEN Raises("JSONDecodeError")
    ELSE Returns(resp.body)

\* TestSuiteDescriptorLoader._load_registry: only requests' own exceptions
\* (ConnectionError, Timeout, the HTTPError of raise_for_status) are caught
load_registry(resp) ==
    IF resp.kind \in {"ConnectionError", "Timeout"} THEN Returns(JNull)
    ELSE IF resp.status >= 400 THEN Returns(JNull)
    ELSE IF resp.body = InvalidBody THEN Raises("JSONDecodeError")
    ELSE Returns(resp.body)

\* the elements a for loop draws from a parsed value
IterItems(v) ==
    CASE v.t = "list" -> Returns(v.items)
      [] v.t = "dict" -> Returns([i \in 1..Len(v.d) |-> JStr(v.d[i].k)])
      [] v.t = "str" -> Returns([i \in 1..Len(v.s) |-> JStr(Char(v.s, i))])
      [] OTHER -> Raises("TypeError")

\* the dict comprehension of process(): a later descriptor of the same
\* suite_name replaces the earlier one
RECURSIVE DescriptorDict(_, _)
DescriptorDict(items, acc) ==
    IF Len(items) = 0 THEN Returns(acc)
    ELSE LET d == from_obj(Head(items))
         IN  IF d.exc # "" THEN d
             ELSE DescriptorDict(Tail(items), DictSet(acc, d.val.suite_name, d.val))

\* TestSuiteDescriptorLoader.process
loader_process(resp) ==
    LET registry == load_registry(resp)
    IN  IF registry.exc # "" THEN registry
        ELSE IF ~Truthy(registry.val) THEN Returns(<<>>)
        ELSE IF registry.val.t # "dict" THEN Raises("AttributeError")
        ELSE LET items == IterItems(JGet(registry.val, "test_suites", JList(<<>>)))
             IN  IF items.exc # "" THEN items ELSE DescriptorDict(items.val, <<>>)

\* the camel form of a suite name
camel_cased(suite_name) ==
    LET elements == Split(suite_name, "_")
    IN  JoinStr([i \in 1..Len(elements) |-> Title(elements[i])], "")

\* a lookup that tries the camel form before the exact name
fuzzy_lookup_camel_first(descs, suite_name) ==
    LET exact == DictGet(descs, suite_name)
        camel == DictGet(descs, camel_cased(suite_name))
    IN  IF camel # None THEN camel
        ELSE IF exact # None THEN exact
        ELSE DictGet(descs, camel_cased(suite_name) \o "Tests")

\* _fuzzy_lookup_suite_descriptor; a TestSuiteDescriptor is always truthy
fuzzy_lookup_suite_descriptor(descs, suite_name) ==
    LET exact == DictGet(descs, suite_name)
        camel == DictGet(descs, camel_cased(suite_name))
    IN  IF exact # None THEN exact
        ELSE IF camel # None THEN camel
        ELSE DictGet(descs, camel_cased(suite_name) \o "Tests")

\* ResultsScanner._process_suite
process_suite(a, descs, suite_name, images) ==
    LET suite_base_url == a.base_url \o "/" \o RESULTS_SUBDIR \o "/" \o suite_name
        suite_no_alpha_base_url ==
            a.no_alpha_base_url \o "/" \o RESULTS_NO_ALPHA_SUBDIR \o "/" \o suite_name
    IN  [name |-> suite_name,
         test_results |->
            [i \in 1..Len(images) |->
                [name |-> splitext(images[i])[1],
                 artifact_url |-> suite_base_url \o "/" \o images[i],
                 no_alpha_artifact_url |-> suite_no_alpha_base_url \o "/" \o images[i]]],
         descriptor |-> fuzzy_lookup_suite_descriptor(descs, suite_name)]

\* dict[key].append(item) on a defaultdict(list)
DictAppend(d, key, item) ==
    DictSet(d, key, IF DictHas(d, key) THEN Append(DictGet(d, key), item) ELSE <<item>>)

\* ResultsScanner._find_result_images over what glob returned
RECURSIVE find_result_images(_, _)
find_result_images(results_files, suite_to_results) ==
    IF Len(results_files) = 0 THEN suite_to_results
    ELSE LET image == Head(results_files)
         IN  find_result_images(Tail(results_files),
                                DictAppend(suite_to_results, dirname(image), basename(image)))

\* ResultsScanner.process
scanner_process(a, descs, results_files) ==
    LET suite_results == find_result_images(results_files, <<>>)
    IN  [i \in 1..Len(suite_results) |->
            KV(suite_results[i].k,
               process_suite(a, descs, suite_results[i].k, suite_results[i].v))]

\* PagesWriter.__init__
PagesWriter(res, a) ==
    [results |-> res,
     output_dir |-> RStrip(a.output_dir, "/"),
     css_output_dir |-> RStrip(a.output_dir, "/"),
     js_output_dir |-> RStrip(a.output_dir, "/"),
     images_base_url |-> RStrip(a.base_url, "/"),
     test_source_base_url |-> RStrip(a.test_source_browser_base_url, "/")]

\* a home url that takes every page to lie one directory below the index
home_url_one_up(self, output_dir) == Returns("../index.html")

\* PagesWriter._home_url
home_url(self, output_dir) ==
    LET rel == relpath(self.output_dir, output_dir)
    IN  IF rel.exc # "" THEN rel ELSE Returns(rel.val \o "/index.html")

\* PagesWriter._suite_result_url
suite_result_url(suite_name) == RESULTS_SUBDIR \o "/" \o suite_name \o "/index.html"

\* a source url that takes line 0 for "no line"
suite_source_url_positive(self, source_file_path, source_line) ==
    IF self.test_source_base_url # "" /\ source_file_path # ""
    THEN IF source_line > 0
         THEN self.test_source_base_url \o "/" \o source_file_path \o "#L" \o StrInt(source_line)
         ELSE self.test_source_base_url \o "/" \o source_file_path
    ELSE ""

\* PagesWriter._suite_source_url
suite_source_url(self, source_file_path, source_line) ==
    IF self.test_source_base_url # "" /\ source_file_path # ""
    THEN IF source_line >= 0
         THEN self.test_source_base_url \o "/" \o source_file_path \o "#L" \o StrInt(source_line)
         ELSE self.test_source_base_url \o "/" \o source_file_path
    ELSE ""

\* PagesWriter._pack_descriptor
pack_descriptor(self, descriptor) ==
    IF descriptor = None THEN None
    ELSE [description |-> descriptor.description,
          source_file |-> descriptor.source_file,
          source_url |-> suite_source_url(self, descriptor.source_file,
                                          descriptor.source_file_line),
          test_descriptions |-> descriptor.test_descriptions]

\* the directory _write_test_suite_results_page writes a suite's page into
suite_output_dir(self, suite_name) ==
    join(self.output_dir, join(RESULTS_SUBDIR, suite_name))

\* the result_infos dict of _write_test_suite_results_page
RECURSIVE result_infos(_, _)
result_infos(test_results, acc) ==
    IF Len(test_results) = 0 THEN acc
    ELSE LET result == Head(test_results)
         IN  result_infos(Tail(test_results),
                          DictSet(acc, result.name,
                                  [url |-> result.artifact_url,
                                   no_alpha_url |-> result.no_alpha_artifact_url]))

\* the variables _write_test_suite_results_page renders its template with, or
\* the exception that evaluating them raises
suite_page(self, suite) ==
    LET output_dir == suite_output_dir(self, suite.name)
        css_dir == relpath(self.css_output_dir, output_dir)
        js_dir == relpath(self.js_output_dir, output_dir)
        home == home_url(self, output_dir)
    IN  IF css_dir.exc # "" THEN css_dir
        ELSE IF js_dir.exc # "" THEN js_dir
        ELSE IF home.exc # "" THEN home
        ELSE Returns([kind |-> "test_suite_results.html.j2",
                      suite_name |-> suite.name,
                      results |-> result_infos(suite.test_results, <<>>),
                      css_dir |-> css_dir.val,
                      js_dir |-> js_dir.val,
                      descriptor |-> pack_descriptor(self, suite.descriptor),
                      home_url |-> home.val])

\* an index that leaves out the first suite
index_page_skipping(self) ==
    LET css_dir == relpath(self.css_output_dir, self.output_dir)
        js_dir == relpath(self.js_output_dir, self.output_dir)
    IN  IF css_dir.exc # "" THEN css_dir
        ELSE IF js_dir.exc # "" THEN js_dir
        ELSE Returns([kind |-> "index.html.j2",
                      results |-> [i \in 1..(Len(self.results) - 1) |->
                                      KV(self.results[i + 1].k,
                                         suite_result_url(self.results[i + 1].k))],
                      css_dir |-> css_dir.val,
                      js_dir |-> js_dir.val])

\* the variables _write_top_level_index renders its template with, or the
\* exception that evaluating them raises
index_page(self) ==
    LET css_dir == relpath(self.css_output_dir, self.output_dir)
        js_dir == relpath(self.js_output_dir, self.output_dir)
    IN  IF css_dir.exc # "" THEN css_dir
        ELSE IF js_dir.exc # "" THEN js_dir
        ELSE Returns([kind |-> "index.html.j2",
                      results |-> [i \in 1..Len(self.results) |->
                                      KV(self.results[i].k, suite_result_url(self.results[i].k))],
                      css_dir |-> css_dir.val,
                      js_dir |-> js_dir.val])

\* the variables _write_css and _write_js render their templates with
css_page == [kind |-> "site.css.j2", comparison_golden_outline_size |-> 6,
             title_bar_height |-> 40]

js_page == [kind |-> "script.js.j2"]

-----------------------------------------------------------------------------
(* generate_wiki.py *)

\* _find_artifacts over what glob returned; the unpacking of split("/", 1)
\* raises ValueError for a name without "/"
RECURSIVE find_artifacts(_, _)
find_artifacts(artifacts, results_by_suite) ==
    IF Len(artifacts) = 0 THEN Returns(results_by_suite)
    ELSE LET parts == Split1(Head(artifacts), "/")
         IN  IF Len(parts) # 2 THEN Raises("ValueError")
             ELSE find_artifacts(Tail(artifacts),
                                 DictAppend(results_by_suite, parts[1], parts[2]))

\* the lines _write_top_level_page writes to Home.md
top_level_page(suite_names) ==
    LET names == Sorted(suite_names)
    IN  [kind |-> "Home.md",
         lines |-> <<"Results\n", "---\n">> \o
                   [i \in 1..Len(names) |->
                       "- [[" \o names[i] \o "|Results-" \o names[i] \o "]]\n"]]

\* the two lines _write_suite_results_page writes for each artifact
RECURSIVE artifact_lines(_, _, _)
artifact_lines(results_dir, suite_name, artifacts) ==
    IF Len(artifacts) = 0 THEN <<>>
    ELSE LET artifact == Head(artifacts)
             image_path == join(join(basename(results_dir), suite_name), artifact)
             image_url == RAW_BASE_URL \o "/" \o quote(image_path)
         IN  <<"## " \o artifact \o "\n",
               "![" \o artifact \o "](" \o image_url \o ")\n">>
             \o artifact_lines(results_dir, suite_name, Tail(artifacts))

\* the lines _write_suite_results_page writes to Results-<suite>.md
suite_results_page(results_dir, suite_name, artifacts) ==
    [kind |-> "Results.md",
     lines |-> <<suite_name \o "\n", "---\n">>
               \o artifact_lines(results_dir, suite_name, Sorted(artifacts))]

suite_results_path(output_dir, suite_name) ==
    join(output_dir, "Results-" \o suite_name \o ".md")

-----------------------------------------------------------------------------
(* The file system: a function from absolute normalised path to content *)

\* a file that was opened for writing and never written to
EmptyFile == [kind |-> "empty"]

\* a file that holds the beginning of what was to be written to it and not
\* the rest
PartialFile == [kind |-> "partial"]

\* a file left by an earlier run
StaleFile == [kind |-> "stale"]

WriteFile(f, path, content) ==
    [p \in (DOMAIN f) \cup {abspath(path)} |-> IF p = abspath(path) THEN content ELSE f[p]]

Unlink(f, paths) == [p \in (DOMAIN f) \ paths |-> f[p]]

\* the names directly inside directory dir
ListDir(f, dir) == {basename(p) : p \in {q \in DOMAIN f : dirname(q) = abspath(dir)}}

\* glob.glob("*.md", root_dir=output_dir)
markdown_pages(f, output_dir) == {n \in ListDir(f, output_dir) : GlobStar(n, ".md")}

\* _clean_output_dir
clean_output_dir(f, output_dir) ==
    Unlink(f, {abspath(join(output_dir, page)) : page \in markdown_pages(f, output_dir)})

-----------------------------------------------------------------------------
(* Inputs of a run *)

\* png files under the results directory, as glob("**/*.png") names them
ResultFiles == {"t.png", "A/t.png", "A/u.png", "A/s/t.png", "b_c/t.png"}

\* the lists without repetition of at most n elements of S
Orders(S, n) ==
    {o \in UNION {[1..k -> S] : k \in 0..n} :
        \A i, j \in DOMAIN o : i # j => o[i] # o[j]}

SiteOutputDirs == {"out", "/srv/www/site/", "/"}

RegistryUrls ==
    {"", "https://raw.githubusercontent.com/abaire/nxdk_pgraph_tests/pages_doxygen/xml/nxdk_pgraph_tests_registry.json"}

SiteArgs ==
    [results_dir : {"results"},
     output_dir : SiteOutputDirs,
     base_url : {"https://raw.githubusercontent.com/abaire/nxdk_pgraph_tests_golden_results/main"},
     no_alpha_base_url : {"https://raw.githubusercontent.com/abaire/nxdk_pgraph_tests_golden_results/pages_deploy"},
     test_descriptor_registry_url : RegistryUrls,
     test_source_browser_base_url : {"https://github.com/abaire/nxdk_pgraph_tests/blob/pages_doxygen"}]

WikiArgs == [results : {"results"}, output : {"wiki"}]

\* files an earlier run or the user left in the wiki directory
WikiStaleNames == {"Home.md", "Results-Old.md", "Results-A.md", ".draft.md", "notes.txt"}

StaleFs(output_dir, names) ==
    [p \in {abspath(join(output_dir, n)) : n \in names} |-> StaleFile]

Bounded(S, n) == {T \in SUBSET S : Cardinality(T) <= n}

\* registry documents
DescriptorA ==
    JObj(<<KV("suite", JStr("A")), KV("class", JStr("ATests")),
           KV("description", JList(<<JStr("Tests A.")>>)),
           KV("source_file", JStr("src/tests/a.cc")),
           KV("source_file_line", JInt(42)),
           KV("test_descriptions", JObj(<<KV("t", JStr("Draws t."))>>))>>)

DescriptorBC ==
    JObj(<<KV("suite", JStr("BCTests")), KV("source_file", JStr("src/tests/bc.cc"))>>)

DescriptorSpaced == JObj(<<KV("suite", JStr("b c")), KV("source_file_line", JInt(7))>>)

DescriptorA2 == JObj(<<KV("suite", JStr("A")), KV("class", JStr("Other"))>>)

Registry1 == JObj(<<KV("test_suites", JList(<<DescriptorA, DescriptorBC>>))>>)

Registry2 == JObj(<<KV("version", JInt(1)),
                    KV("test_suites", JList(<<DescriptorBC, DescriptorSpaced,
                                              DescriptorA, DescriptorA2>>))>>)

Http(status, body) == [kind |-> "http", status |-> status, body |-> body]

NoRequest == [kind |-> "none"]

\* what requests.get can answer
Responses ==
    {[kind |-> "ConnectionError"], [kind |-> "Timeout"], Http(500, InvalidBody),
     Http(200, InvalidBody), Http(200, JObj(<<>>)), Http(200, JList(<<JInt(1)>>)),
     Http(200, JObj(<<KV("test_suites", JList(<<JObj(<<KV("suite", JInt(5))>>)>>))>>)),
     Http(200, Registry1), Http(200, Registry2)}

\* how one page write of generate_site.py can end: written ("ok");
\* env.get_template raises before the file is opened; os.makedirs or open
\* raises OSError before the file is touched; template.render raises after
\* open truncated the file; outfile.write or the close that ends the with
\* block raises OSError after open truncated the file, with nothing of the
\* page in the file ("write") or with its beginning ("write_partial")
WriteOutcomes == {"ok", "get_template", "open", "render", "write", "write_partial"}

\* how one page write of generate_wiki.py can end: written, OSError from open
\* before the file is touched, OSError from writelines or the close after
\* open truncated the file, with nothing of the page in the file ("write") or
\* with its beginning ("write_partial")
WikiWriteOutcomes == {"ok", "open", "write", "write_partial"}

\* how os.makedirs(output_dir, exist_ok=True) can end
MakedirsOutcomes == {"ok", "OSError"}

\* how the cleanup of the wiki directory can end: done; OSError from
\* os.makedirs; glob lists nothing because the directory cannot be read (glob
\* swallows the OSError of the listing), so that nothing is deleted and the
\* run goes on; OSError from an os.unlink after some pages were deleted
CleanOutcomes == {"ok", "makedirs", "unlisted", "unlink"}

-----------------------------------------------------------------------------
(* generate_site.py: main() *)

Writer == PagesWriter(results, args)

Fail(exception) ==
    /\ pc' = "failed"
    /\ error' = exception
    /\ exit_code' = 1

\* a write whose failure is swallowed: the run goes on with the next page
WriteStepSwallowing(path, content, outcome, next_pc) ==
    /\ fs' = IF outcome = "ok" THEN WriteFile(fs, path, content.val) ELSE fs
    /\ written' = IF outcome = "ok" THEN Append(written, abspath(path)) ELSE written
    /\ pc' = next_pc
    /\ UNCHANGED <<error, exit_code>>

\* one _write_* method: env.get_template(name), then (for a suite page)
\* os.makedirs, then open(path, "w"), then the evaluation of the template's
\* variables (content), then outfile.write(template.render(...)) and the
\* close of the file
WriteStep(path, content, outcome, next_pc) ==
    IF outcome = "get_template"
    THEN fs' = fs /\ written' = written /\ Fail("TemplateError")
    ELSE IF outcome = "open"
    THEN fs' = fs /\ written' = written /\ Fail("OSError")
    ELSE IF content.exc # ""
    THEN fs' = WriteFile(fs, path, EmptyFile) /\ written' = written /\ Fail(content.exc)
    ELSE IF outcome = "render"
    THEN fs' = WriteFile(fs, path, EmptyFile) /\ written' = written /\ Fail("TemplateError")
    ELSE IF outcome = "write"
    THEN fs' = WriteFile(fs, path, EmptyFile) /\ written' = written /\ Fail("OSError")
    ELSE IF outcome = "write_partial"
    THEN fs' = WriteFile(fs, path, PartialFile) /\ written' = written /\ Fail("OSError")
    ELSE /\ fs' = WriteFile(fs, path, content.val)
         /\ written' = Append(written, abspath(path))
         /\ pc' = next_pc
         /\ UNCHANGED <<error, exit_code>>

\* main(): os.makedirs(args.output_dir, exist_ok=True), then
\* TestSuiteDescriptorLoader(url).process() if url else {}
LoadDescriptors ==
    /\ tool = "site" /\ pc = "load"
    /\ \E made \in MakedirsOutcomes :
         IF made # "ok"
         THEN response' = response /\ descriptors' = descriptors /\ Fail(made)
         ELSE IF args.test_descriptor_registry_url = ""
         THEN /\ response' = NoRequest
              /\ descriptors' = <<>>
              /\ pc' = "scan"
              /\ UNCHANGED <<error, exit_code>>
         ELSE \E resp \in Responses :
                LET r == loader_process(resp)
                IN  /\ response' = resp
                    /\ IF r.exc # ""
                       THEN descriptors' = descriptors /\ Fail(r.exc)
                       ELSE /\ descriptors' = r.val
                            /\ pc' = "scan"
                            /\ UNCHANGED <<error, exit_code>>
    /\ UNCHANGED <<tool, args, stale, globbed, results, fs, written, todo, probe>>

\* main(): ResultsScanner(...).process()
Scan ==
    /\ tool = "site" /\ pc = "scan"
    /\ results' = scanner_process(args, descriptors, globbed)
    /\ pc' = "css"
    /\ UNCHANGED <<tool, error, args, stale, globbed, response, descriptors, fs, written,
                   todo, exit_code, probe>>

\* PagesWriter.write: os.makedirs(self.output_dir), which raises
\* FileNotFoundError for the empty path, then _write_css
WriteCss ==
    /\ tool = "site" /\ pc = "css"
    /\ IF Writer.output_dir = ""
       THEN fs' = fs /\ written' = written /\ Fail("FileNotFoundError")
       ELSE \E outcome \in WriteOutcomes :
              WriteStep(join(Writer.css_output_dir, "site.css"), Returns(css_page), outcome,
                        "js")
    /\ UNCHANGED <<tool, args, stale, globbed, response, descriptors, results, todo, probe>>

\* PagesWriter.write: _write_js
WriteJs ==
    /\ tool = "site" /\ pc = "js"
    /\ \E outcome \in WriteOutcomes :
         WriteStep(join(Writer.js_output_dir, "script.js"), Returns(js_page), outcome, "index")
    /\ UNCHANGED <<tool, args, stale, globbed, response, descriptors, results, todo, probe>>

\* PagesWriter.write: _write_top_level_index, then the loop starts
WriteIndex ==
    /\ tool = "site" /\ pc = "index"
    /\ \E outcome \in WriteOutcomes :
         WriteStep(join(Writer.output_dir, "index.html"), index_page(Writer), outcome, "pages")
    /\ todo' = [i \in 1..Len(results) |-> results[i].v]
    /\ UNCHANGED <<tool, args, stale, globbed, response, descriptors, results, probe>>

\* PagesWriter.write: one turn of the loop, _write_test_suite_results_page
WritePage ==
    /\ tool = "site" /\ pc = "pages" /\ Len(todo) > 0
    /\ \E outcome \in WriteOutcomes :
         WriteStep(join(suite_output_dir(Writer, Head(todo).name), "index.html"),
                   suite_page(Writer, Head(todo)), outcome, "pages")
    /\ todo' = Tail(todo)
    /\ UNCHANGED <<tool, args, stale, globbed, response, descriptors, results, probe>>

\* PagesWriter.write: return 0 after the loop
SiteReturn ==
    /\ tool = "site" /\ pc = "pages" /\ Len(todo) = 0
    /\ pc' = "done"
    /\ exit_code' = 0
    /\ UNCHANGED <<tool, error, args, stale, globbed, response, descriptors, results, fs,
                   written, todo, probe>>

-----------------------------------------------------------------------------
(* generate_wiki.py: process_results() *)

\* _find_artifacts
WikiScan ==
    /\ tool = "wiki" /\ pc = "scan"
    /\ LET r == find_artifacts(globbed, <<>>)
       IN  IF r.exc # ""
           THEN results' = results /\ Fail(r.exc)
           ELSE results' = r.val /\ pc' = "clean" /\ UNCHANGED <<error, exit_code>>
    /\ UNCHANGED <<tool, args, stale, globbed, response, descriptors, fs, written, todo, probe>>

\* os.makedirs and _clean_output_dir; the pages are unlinked in the order of
\* the glob, so a failing unlink leaves any set of the other pages deleted
WikiClean ==
    /\ tool = "wiki" /\ pc = "clean"
    /\ \E outcome \in CleanOutcomes :
         IF outcome = "makedirs"
         THEN fs' = fs /\ Fail("OSError")
         ELSE IF outcome = "unlisted"
         THEN fs' = fs /\ pc' = "home" /\ UNCHANGED <<error, exit_code>>
         ELSE IF outcome = "unlink"
         THEN \E kept \in markdown_pages(fs, args.output) :
                \E gone \in SUBSET (markdown_pages(fs, args.output) \ {kept}) :
                   /\ fs' = Unlink(fs, {abspath(join(args.output, page)) : page \in gone})
                   /\ Fail("OSError")
         ELSE /\ fs' = clean_output_dir(fs, args.output)
              /\ pc' = "home"
              /\ UNCHANGED <<error, exit_code>>
    /\ UNCHANGED <<tool, args, stale, globbed, response, descriptors, results, written,
                   todo, probe>>

\* with open(path, "w") as outfile: outfile.writelines(...)
WikiWriteStep(path, content, outcome, next_pc) ==
    IF outcome = "open"
    THEN fs' = fs /\ written' = written /\ Fail("OSError")
    ELSE IF outcome = "write"
    THEN fs' = WriteFile(fs, path, EmptyFile) /\ written' = written /\ Fail("OSError")
    ELSE IF outcome = "write_partial"
    THEN fs' = WriteFile(fs, path, PartialFile) /\ written' = written /\ Fail("OSError")
    ELSE /\ fs' = WriteFile(fs, path, content)
         /\ written' = Append(written, abspath(path))
         /\ pc' = next_pc
         /\ UNCHANGED <<error, exit_code>>

\* _write_top_level_page, then the loop starts
WikiHome ==
    /\ tool = "wiki" /\ pc = "home"
    /\ \E outcome \in WikiWriteOutcomes :
         WikiWriteStep(join(args.output, "Home.md"), top_level_page(DictKeys(results)),
                       outcome, "pages")
    /\ todo' = results
    /\ UNCHANGED <<tool, args, stale, globbed, response, descriptors, results, probe>>

\* one turn of the loop: _write_suite_results_page
WikiPage ==
    /\ tool = "wiki" /\ pc = "pages" /\ Len(todo) > 0
    /\ \E outcome \in WikiWriteOutcomes :
         WikiWriteStep(suite_results_path(args.output, Head(todo).k),
                       suite_results_page(args.results, Head(todo).k, Head(todo).v),
                       outcome, "pages")
    /\ todo' = Tail(todo)
    /\ UNCHANGED <<tool, args, stale, globbed, response, descriptors, results, probe>>

\* return 0 after the loop
WikiReturn ==
    /\ tool = "wiki" /\ pc = "pages" /\ Len(todo) = 0
    /\ pc' = "done"
    /\ exit_code' = 0
    /\ UNCHANGED <<tool, error, args, stale, globbed, response, descriptors, results, fs,
                   written, todo, probe>>

-----------------------------------------------------------------------------
(* The runs of the two generators *)

Init ==
    /\ tool \in {"site", "wiki"}
    /\ args \in (IF tool = "site" THEN SiteArgs ELSE WikiArgs)
    /\ globbed \in Orders(ResultFiles, MaxFiles)
    /\ fs \in (IF tool = "site"
               THEN {StaleFs(args.output_dir, {})}
               ELSE {StaleFs(args.output, N) : N \in Bounded(WikiStaleNames, MaxStale)})
    /\ stale = DOMAIN fs
    /\ pc = (IF tool = "site" THEN "load" ELSE "scan")
    /\ error = ""
    /\ response = NoRequest
    /\ descriptors = <<>>
    /\ results = <<>>
    /\ written = <<>>
    /\ todo = <<>>
    /\ exit_code = -1
    /\ probe = None

Next ==
    \/ LoadDescriptors
    \/ Scan
    \/ WriteCss
    \/ WriteJs
    \/ WriteIndex
    \/ WritePage
    \/ SiteReturn
    \/ WikiScan
    \/ WikiClean
    \/ WikiHome
    \/ WikiPage
    \/ WikiReturn

Spec == Init /\ [][Next]_vars

-----------------------------------------------------------------------------
(* _fuzzy_lookup_suite_descriptor as a function of its arguments *)

\* the strings of at most n characters drawn from the one-character strings C
RECURSIVE Strings(_, _)
Strings(C, n) ==
    IF n = 0 THEN {""}
    ELSE LET shorter == Strings(C, n - 1)
         IN  shorter \cup {s \o c : s \in shorter, c \in C}

\* suite names a results directory can hold
LookupNames == Strings({"a", "A", "_"}, MaxNameLen) \cup {"Some_Suite"}

\* suite names a registry can hold
LookupKeys ==
    {"", "a", "A", "Aa", "AA", "Tests", "aTests", "ATests", "AaTests",
     "Some_Suite", "SomeSuite", "SomeSuiteTests"}

\* the registry entries of the given suites, in the given order
RegistryItems(keys) == [i \in 1..Len(keys) |-> JObj(<<KV("suite", JStr(keys[i]))>>)]

LookupInit ==
    /\ tool = "lookup"
    /\ pc = "call"
    /\ probe \in [suite_name : LookupNames, ret : {None}]
    /\ descriptors \in {DescriptorDict(RegistryItems(keys), <<>>).val :
                           keys \in Orders(LookupKeys, MaxEntries)}
    /\ error = ""
    /\ args = None
    /\ stale = {}
    /\ globbed = <<>>
    /\ response = NoRequest
    /\ results = <<>>
    /\ fs = <<>>
    /\ written = <<>>
    /\ todo = <<>>
    /\ exit_code = -1

\* ResultsScanner._get_suite_descriptor
GetSuiteDescriptor ==
    /\ tool = "lookup" /\ pc = "call"
    /\ probe' = [probe EXCEPT
                    !.ret = fuzzy_lookup_suite_descriptor(descriptors, probe.suite_name)]
    /\ pc' = "returned"
    /\ UNCHANGED <<tool, error, args, stale, globbed, response, descriptors, results, fs,
                   written, todo, exit_code>>

LookupNext == GetSuiteDescriptor

SpecLookup == LookupInit /\ [][LookupNext]_vars

-----------------------------------------------------------------------------
(* PagesWriter._suite_source_url as a function of its arguments *)

SourceBaseUrls ==
    {"", "/", "https://github.com/abaire/nxdk_pgraph_tests/blob/pages_doxygen",
     "https://github.com/abaire/nxdk_pgraph_tests/blob/pages_doxygen/", "https://s//"}

SourceFiles == {"", "foo/bar.cc", "src/tests/a.cc"}

SourceLines == (-2..MaxLine) \cup {42}

UrlInit ==
    /\ tool = "url"
    /\ pc = "call"
    /\ args \in [results_dir : {"results"}, output_dir : {"out"},
                 base_url : {"https://raw.githubusercontent.com/abaire/nxdk_pgraph_tests_golden_results/main"},
                 test_source_browser_base_url : SourceBaseUrls]
    /\ probe \in [source_file : SourceFiles, source_file_line : SourceLines, ret : {""}]
    /\ descriptors = <<>>
    /\ error = ""
    /\ stale = {}
    /\ globbed = <<>>
    /\ response = NoRequest
    /\ results = <<>>
    /\ fs = <<>>
    /\ written = <<>>
    /\ todo = <<>>
    /\ exit_code = -1

\* PagesWriter(...)._suite_source_url(source_file, source_file_line)
SuiteSourceUrl ==
    /\ tool = "url" /\ pc = "call"
    /\ probe' = [probe EXCEPT
                    !.ret = suite_source_url(PagesWriter(results, args), probe.source_file,
                                             probe.source_file_line)]
    /\ pc' = "returned"
    /\ UNCHANGED <<tool, error, args, stale, globbed, response, descriptors, results, fs,
                   written, todo, exit_code>>

UrlNext == SuiteSourceUrl

SpecUrl == UrlInit /\ [][UrlNext]_vars

-----------------------------------------------------------------------------
(* C2: the descriptor lookup *)

\* The camel form as the specification words it, character by character: the
\* underscores are dropped, and a letter is upper case exactly when it starts
\* the name or follows a character that is no letter, lower case otherwise.
RECURSIVE CamelChars(_, _)
CamelChars(name, i) ==
    IF i > Len(name) THEN ""
    ELSE LET c == Char(name, i)
             first == i = 1 \/ ~IsCased(Char(name, i - 1))
         IN  (IF c = "_" THEN ""
              ELSE IF ~IsCased(c) THEN c
              ELSE IF first THEN ToUpper(c) ELSE ToLower(c))
             \o CamelChars(name, i + 1)

\* the descriptor stored under a key
StoredUnder(descs, key) == descs[CHOOSE i \in 1..Len(descs) : descs[i].k = key].v

\* first match wins: exact name, camel form, camel form \o "Tests", absence
FirstMatch(descs, name) ==
    LET camel == CamelChars(name, 1)
    IN  IF DictHas(descs, name) THEN StoredUnder(descs, name)
        ELSE IF DictHas(descs, camel) THEN StoredUnder(descs, camel)
        ELSE IF DictHas(descs, camel \o "Tests") THEN StoredUnder(descs, camel \o "Tests")
        ELSE None

\* the same entries in another insertion order
Reorderings(descs) ==
    {[i \in 1..Len(descs) |-> descs[f[i]]] :
        f \in {g \in [1..Len(descs) -> 1..Len(descs)] :
                 \A i, j \in 1..Len(descs) : i # j => g[i] # g[j]}}

\* C2: the lookup returns the descriptor stored under the exact name if that
\* key exists, else the one under the camel form, else the one under the
\* camel form followed by "Tests", else nothing; "Some_Suite" finds
\* "SomeSuite" by the camel rule and "SomeSuiteTests" by the suffix rule; and
\* the answer is the same for every insertion order of the descriptors.
C2_FirstMatchWins ==
    (tool = "lookup" /\ pc = "returned") =>
        LET name == probe.suite_name
        IN  /\ probe.ret = FirstMatch(descriptors, name)
            /\ DictHas(descriptors, name) => probe.ret.suite_name = name
            /\ (name = "Some_Suite" /\ ~DictHas(descriptors, name)
                    /\ DictHas(descriptors, "SomeSuite"))
                => probe.ret.suite_name = "SomeSuite"
            /\ (name = "Some_Suite" /\ ~DictHas(descriptors, name)
                    /\ ~DictHas(descriptors, "SomeSuite")
                    /\ DictHas(descriptors, "SomeSuiteTests"))
                => probe.ret.suite_name = "SomeSuiteTests"
            /\ \A other \in Reorderings(descriptors) :
                 fuzzy_lookup_suite_descriptor(other, name) = probe.ret

\* the exact key was inserted after the key of the camel form and still wins
C2_Witness ==
    /\ tool = "lookup" /\ pc = "returned"
    /\ Len(descriptors) = 2
    /\ descriptors[1].k = CamelChars(probe.suite_name, 1)
    /\ descriptors[2].k = probe.suite_name
    /\ descriptors[1].k # descriptors[2].k
    /\ probe.ret = descriptors[2].v

-----------------------------------------------------------------------------
(* C6: the source link *)

\* the number a string of decimal digits denotes, -1 if it is no such string
RECURSIVE DigitsValue(_, _)
DigitsValue(s, acc) ==
    IF Len(s) = 0 THEN acc
    ELSE IF Find(Digits, Head(s)) < 0 THEN -1
    ELSE DigitsValue(Tail(s), 10 * acc + Find(Digits, Head(s)))

\* "#L<line>": the fragment of a link to line
IsLineFragment(s, line) ==
    /\ Len(s) >= 3
    /\ UpTo(s, 2) = "#L"
    /\ (Len(s) > 3 => Char(s, 3) # "0")
    /\ DigitsValue(From(s, 2), 0) = line

EndsWith(s, suffix) ==
    Len(s) >= Len(suffix) /\ From(s, Len(s) - Len(suffix)) = suffix

\* C6 as claimed: with a non-empty base URL the link is <base>/<source_file>
\* followed by #L<line> when line >= 0 and by nothing when line < 0, for every
\* source file path; with an empty base URL the link is empty.
C6_Claimed ==
    (tool = "url" /\ pc = "returned") =>
        LET base == args.test_source_browser_base_url
            stem == base \o "/" \o probe.source_file
        IN  IF base = "" THEN probe.ret = ""
            ELSE /\ Len(probe.ret) >= Len(stem)
                 /\ UpTo(probe.ret, Len(stem)) = stem
                 /\ IF probe.source_file_line >= 0
                    THEN IsLineFragment(From(probe.ret, Len(stem)), probe.source_file_line)
                    ELSE probe.ret = stem

\* C6 as amended: base is the base URL without its trailing slashes.  When base
\* and the source file path are both non-empty the link is <base>/<source_file>
\* followed by #L<line> when line >= 0 and by nothing when line < 0; when
\* either is empty the link is empty.
C6_SourceUrl ==
    (tool = "url" /\ pc = "returned") =>
        LET base == RStrip(args.test_source_browser_base_url, "/")
            stem == base \o "/" \o probe.source_file
        IN  IF base = "" \/ probe.source_file = "" THEN probe.ret = ""
            ELSE /\ Len(probe.ret) >= Len(stem)
                 /\ UpTo(probe.ret, Len(stem)) = stem
                 /\ IF probe.source_file_line >= 0
                    THEN IsLineFragment(From(probe.ret, Len(stem)), probe.source_file_line)
                    ELSE probe.ret = stem
                 /\ (probe.source_file = "foo/bar.cc" /\ probe.source_file_line = 42)
                        => EndsWith(probe.ret, "foo/bar.cc#L42")
                 /\ (probe.source_file = "foo/bar.cc" /\ probe.source_file_line = -1)
                        => EndsWith(probe.ret, "foo/bar.cc")

\* line 42 of foo/bar.cc under a base URL given with a trailing slash
C6_Witness ==
    /\ tool = "url" /\ pc = "returned"
    /\ args.test_source_browser_base_url
         = "https://github.com/abaire/nxdk_pgraph_tests/blob/pages_doxygen/"
    /\ probe.source_file = "foo/bar.cc"
    /\ probe.source_file_line = 42
    /\ probe.ret = "https://github.com/abaire/nxdk_pgraph_tests/blob/pages_doxygen/foo/bar.cc#L42"

-----------------------------------------------------------------------------
(* What the claims speak of *)

\* a file's directory as the specification words it: all path segments but
\* the last
DirPart(f) ==
    LET segments == Split(f, "/")
    IN  JoinStr(SubSeq(segments, 1, Len(segments) - 1), "/")

\* a file's first path segment
FirstSegment(f) == Split(f, "/")[1]

FilePart(f) == LET segments == Split(f, "/") IN segments[Len(segments)]

\* the suites of the png files the results directory holds
SiteSuites == {DirPart(f) : f \in Range(globbed)}

WikiSuites == {FirstSegment(f) : f \in Range(globbed)}

\* where a relative link leads from a page in directory dir
Resolve(dir, link) == normpath(join(dir, link))

SiteRoot == abspath(args.output_dir)

\* <output_dir>/results/<suite_name>/index.html
PagePath(suite_name) ==
    abspath(args.output_dir \o "/" \o "results" \o "/" \o suite_name \o "/" \o "index.html")

IndexPath == abspath(args.output_dir \o "/" \o "index.html")

WikiPath(name) == abspath(args.output \o "/" \o name)

Count(seq, x) == Cardinality({i \in 1..Len(seq) : seq[i] = x})

Scanned == pc \in {"css", "js", "index", "pages", "done"} \/ (pc = "failed" /\ Len(results) > 0)

WriteErrors == {"OSError", "FileNotFoundError", "TemplateError"}

-----------------------------------------------------------------------------
(* C1: the top-level page *)

\* C1: after a successful run the top-level page names every discovered suite
\* exactly once and no other suite: the HTML index maps each key of the
\* scanner's result to results/<suite>/index.html, and Home.md holds one line
\* "- [[<suite>|Results-<suite>]]" for each key of _find_artifacts.
C1_EachSuiteOnce ==
    (pc = "done") =>
        IF tool = "site"
        THEN LET index == fs[IndexPath].results
             IN  /\ Range(DictKeys(results)) = SiteSuites
                 /\ Range(DictKeys(index)) = SiteSuites
                 /\ \A suite \in SiteSuites :
                      /\ Count(DictKeys(index), suite) = 1
                      /\ DictGet(index, suite) = "results/" \o suite \o "/index.html"
        ELSE LET lines == fs[WikiPath("Home.md")].lines
             IN  /\ Range(DictKeys(results)) = WikiSuites
                 /\ Len(lines) = 2 + Cardinality(WikiSuites)
                 /\ \A suite \in WikiSuites :
                      Count(lines, "- [[" \o suite \o "|Results-" \o suite \o "]]\n") = 1

\* a finished HTML run over three files in two suites
C1_Witness ==
    /\ tool = "site" /\ pc = "done"
    /\ Len(globbed) = 3
    /\ Cardinality(SiteSuites) = 2
    /\ Len(fs[IndexPath].results) = 2

-----------------------------------------------------------------------------
(* C3: the registry loader *)

\* C3 as claimed: process() of the loader raises nothing, whatever the
\* network read yields.
C3_NeverPropagates ==
    ~(tool = "site" /\ pc = "failed" /\ response # NoRequest /\ error \notin WriteErrors)

-----------------------------------------------------------------------------
(* C4: a failed registry fetch *)

FetchFailed ==
    \/ response.kind \in {"ConnectionError", "Timeout"}
    \/ (response.kind = "http" /\ response.status >= 400)

\* C4: when the registry fetch fails (transport failure, timeout or HTTP error
\* status) the HTML run is not ended by the loader, no suite gets a
\* descriptor, and the run that finishes returns 0 with the index page and one
\* results page for every discovered suite, none of them given a descriptor.
C4_FetchFailureDegrades ==
    (tool = "site" /\ FetchFailed) =>
        /\ descriptors = <<>>
        /\ pc = "failed" => error \in WriteErrors
        /\ \A i \in 1..Len(results) : results[i].v.descriptor = None
        /\ \A suite \in SiteSuites :
             PagePath(suite) \in Range(written) => fs[PagePath(suite)].descriptor = None
        /\ pc = "done" =>
             /\ exit_code = 0
             /\ fs[IndexPath].kind = "index.html.j2"
             /\ \A suite \in SiteSuites :
                  /\ PagePath(suite) \in DOMAIN fs
                  /\ fs[PagePath(suite)].kind = "test_suite_results.html.j2"
                  /\ fs[PagePath(suite)].suite_name = suite

\* a run that finished with two suite pages after the registry answered 500
C4_Witness ==
    /\ tool = "site" /\ pc = "done"
    /\ response.kind = "http" /\ response.status = 500
    /\ Cardinality(SiteSuites) = 2
    /\ exit_code = 0

-----------------------------------------------------------------------------
(* C5: the wiki cleanup *)

MarkdownNames(f) == {n \in ListDir(f, args.output) : EndsWith(n, ".md")}

WikiPages == {"Home.md"} \cup {"Results-" \o suite \o ".md" : suite \in WikiSuites}

\* C5 as claimed: every markdown file the output directory held is deleted
\* after the scan and before the first write, so a finished run leaves exactly
\* Home.md and one Results-<suite>.md per discovered suite; Results-Old.md is
\* gone and no page of the run is deleted.
C5_Claimed ==
    (tool = "wiki") =>
        /\ pc = "clean" => written = <<>>
        /\ pc = "done" =>
             /\ MarkdownNames(fs) = WikiPages
             /\ WikiPath("Results-Old.md") \notin DOMAIN fs
             /\ \A p \in Range(written) : p \in DOMAIN fs /\ fs[p] # StaleFile

-----------------------------------------------------------------------------
(* C7: determinism under the enumeration order *)

\* the pages an HTML run over the enumeration order files emits
SitePages(files) ==
    LET res == scanner_process(args, descriptors, files)
        self == PagesWriter(res, args)
    IN  <<index_page(self)>> \o [i \in 1..Len(res) |-> suite_page(self, res[i].v)]

\* the pages a wiki run over the enumeration order files emits, by file name
WikiPagesOf(files) ==
    LET res == find_artifacts(files, <<>>).val
    IN  {<<"Home.md", top_level_page(DictKeys(res))>>}
        \cup {<<"Results-" \o res[i].k \o ".md",
                suite_results_page(args.results, res[i].k, res[i].v)>> : i \in 1..Len(res)}

\* C7 as claimed: a run over the same files enumerated in another order
\* iterates the suites and the artifacts of each suite in the same order and
\* emits the same pages, in the HTML generator and in the wiki generator.
C7_Claimed ==
    /\ (tool = "site" /\ Scanned) =>
          \A other \in Reorderings(globbed) :
             /\ scanner_process(args, descriptors, other) = results
             /\ SitePages(other) = SitePages(globbed)
    /\ (tool = "wiki" /\ pc \in {"clean", "home", "pages", "done"}) =>
          \A other \in Reorderings(globbed) : WikiPagesOf(other) = WikiPagesOf(globbed)

-----------------------------------------------------------------------------
(* C8: relative links of the HTML pages *)

\* C8: the page of every suite is written to
\* <output_dir>/results/<suite_name>/index.html, whatever the depth of the
\* suite name; from the directory of that page css_dir and js_dir lead to
\* <output_dir>, where site.css and script.js are, and home_url leads to
\* <output_dir>/index.html; from <output_dir> the link the index holds for
\* the suite leads to the suite's page.
C8_LinksResolve ==
    (tool = "site" /\ pc \in {"pages", "done", "failed"}) =>
        \A i \in 1..Len(results) :
           LET suite == results[i].k
               path == PagePath(suite)
               page == fs[path]
               dir == dirname(path)
           IN  /\ (pc = "done" \/ i <= Len(written) - 3) <=> path \in Range(written)
               /\ path \in Range(written) =>
                    /\ page.kind = "test_suite_results.html.j2"
                    /\ page.suite_name = suite
                    /\ Resolve(dir, page.css_dir) = SiteRoot
                    /\ fs[join(Resolve(dir, page.css_dir), "site.css")] = css_page
                    /\ Resolve(dir, page.js_dir) = SiteRoot
                    /\ fs[join(Resolve(dir, page.js_dir), "script.js")] = js_page
                    /\ Resolve(dir, page.home_url) = IndexPath
                    /\ fs[IndexPath].kind = "index.html.j2"
                    /\ Resolve(SiteRoot, DictGet(fs[IndexPath].results, suite)) = path

\* a finished run into a nested output directory with pages for a suite two
\* directories deep and for the files of the results root
C8_Witness ==
    /\ tool = "site" /\ pc = "done"
    /\ args.output_dir = "/srv/www/site/"
    /\ SiteSuites = {"A/s", ""}
    /\ fs["/srv/www/site/results/A/s/index.html"].home_url = "../../../index.html"
    /\ fs["/srv/www/site/results/index.html"].home_url = "../index.html"

-----------------------------------------------------------------------------
(* C9: grouping of the images *)

\* the artifacts a wiki page lists: its "## <artifact>" lines
Listed(lines) == {i \in 1..Len(lines) : Len(lines[i]) > 3 /\ UpTo(lines[i], 3) = "## "}

\* <base>/results/<suite>/<file name>: the public URL of an image
ArtifactUrl(f) == args.base_url \o "/results/" \o DirPart(f) \o "/" \o FilePart(f)

\* C9 as claimed: whatever png files the results directory holds, files of
\* its root included, the scan does not end the run, every image belongs to
\* exactly one suite and is listed exactly once on that suite's page, no suite
\* is empty, and the finished run has written a page for every suite.
C9_Claimed ==
    /\ ~(pc = "failed" /\ error = "ValueError")
    /\ (tool = "site" /\ pc = "done") =>
          /\ \A i \in 1..Len(results) : Len(results[i].v.test_results) > 0
          /\ \A f \in Range(globbed) :
                /\ Cardinality({i \in 1..Len(results) :
                      \E j \in 1..Len(results[i].v.test_results) :
                         results[i].v.test_results[j].artifact_url
                           = ArtifactUrl(f)}) = 1
                /\ PagePath(DirPart(f)) \in DOMAIN fs
                /\ Cardinality({j \in 1..Len(fs[PagePath(DirPart(f))].results) :
                      fs[PagePath(DirPart(f))].results[j].v.url = ArtifactUrl(f)}) = 1
          /\ \A i \in 1..Len(results) :
                Len(fs[PagePath(results[i].k)].results)
                  = Cardinality({f \in Range(globbed) : DirPart(f) = results[i].k})
    /\ (tool = "wiki" /\ pc = "done") =>
          /\ \A i \in 1..Len(results) : Len(results[i].v) > 0
          /\ \A f \in Range(globbed) :
                LET page == WikiPath("Results-" \o FirstSegment(f) \o ".md")
                    artifact == From(f, Len(FirstSegment(f)) + 1)
                IN  /\ page \in DOMAIN fs
                    /\ Count(fs[page].lines, "## " \o artifact \o "\n") = 1
          /\ \A i \in 1..Len(results) :
                Cardinality(Listed(fs[WikiPath("Results-" \o results[i].k \o ".md")].lines))
                  = Cardinality({f \in Range(globbed) : FirstSegment(f) = results[i].k})

-----------------------------------------------------------------------------
(* C10: no rollback *)

\* the files PagesWriter.write writes, in order, and what it writes to them
WritePlan ==
    LET self == PagesWriter(results, args)
    IN  <<[path |-> abspath(args.output_dir \o "/site.css"), content |-> css_page],
          [path |-> abspath(args.output_dir \o "/script.js"), content |-> js_page],
          [path |-> IndexPath, content |-> index_page(self).val]>>
        \o [i \in 1..Len(results) |->
               [path |-> PagePath(results[i].k), content |-> suite_page(self, results[i].v).val]]

\* C10: write() writes site.css, script.js, the index and then one page per
\* suite, in this order; when a write fails the run ends there with a
\* non-zero exit code, no page of a later suite exists, and every file written
\* before is in place with the content it was written with; only a run that
\* met no failure returns 0, and it has written every page.
C10_NoRollback ==
    (tool = "site") =>
        LET plan == WritePlan
        IN  /\ Len(written) <= Len(plan)
            /\ \A k \in 1..Len(written) :
                 /\ written[k] = plan[k].path
                 /\ written[k] \in DOMAIN fs
                 /\ fs[written[k]] = plan[k].content
            /\ error # "" <=> pc = "failed"
            /\ (pc = "failed" /\ error \in WriteErrors) =>
                 /\ exit_code # 0
                 /\ Len(written) < Len(plan)
                 /\ \A k \in (Len(written) + 2)..Len(plan) : plan[k].path \notin DOMAIN fs
            /\ pc = "done" <=> exit_code = 0
            /\ pc = "done" => Len(written) = Len(plan)

\* rendering the page of the second of three suites failed after the first
\* was written: the file is there, empty
C10_Witness ==
    /\ tool = "site" /\ pc = "failed" /\ error = "TemplateError"
    /\ Len(results) = 3
    /\ Len(written) = 4
    /\ WritePlan[5].path \in DOMAIN fs
    /\ fs[WritePlan[5].path] = EmptyFile
    /\ WritePlan[6].path \notin DOMAIN fs
    /\ fs[WritePlan[4].path] = WritePlan[4].content

====
